---- MODULE Spec2Model ----
(***************************************************************************)
(* State-machine model of smolmigrate (src/main.py): the pg_migrations     *)
(* directory of script files, the pg_migrations ledger table, and the four *)
(* commands init, create, migrate (apply_pending) and list.                *)
(*                                                                         *)
(* File names and migration names are strings, modelled as sequences of    *)
(* character codes so that sorted() and the f-string formatting can be     *)
(* computed as Python computes them.  A script is a sequence of lines.     *)
(***************************************************************************)
EXTENDS Integers, Sequences, FiniteSets, TLC

VARIABLES
    dsn,                \* DSN is set (module global, main.py:13)
    dirExists,          \* the pg_migrations directory exists
    store,              \* file name -> text between the triple quotes of up_sql
    ledgerExists,       \* the pg_migrations table exists
    ledger,             \* filename column of pg_migrations, ORDER BY id
    pc,                 \* "idle", or "applying" inside the loop of apply_pending_migrations
    all_migrations,     \* apply_pending_migrations: the part of all_migrations still to iterate
    applied_migrations, \* apply_pending_migrations: the list read before the loop
    lastOp,             \* the command that ran last
    log,                \* the last message logged
    report,             \* the status lines of the last list_migrations
    attempted,          \* history: names passed to add_migration since the last migrate started
    failed,             \* history: names whose add_migration took the except branch in that run
    execOk,             \* history: names whose script ran without error in that run
    startStore,         \* history: store when that run started
    startLedger,        \* history: ledger when that run started (after pg_metadata_init)
    quiet,              \* history: no create and no drop since the previous migrate returned
    lostRecords,        \* history: the records the table held when it was last dropped
    nCreates            \* number of commands that wrote a script file so far

vars == <<dsn, dirExists, store, ledgerExists, ledger, pc, all_migrations,
          applied_migrations, lastOp, log, report, attempted, failed, execOk,
          startStore, startLedger, quiet, lostRecords, nCreates>>

hist == <<attempted, failed, execOk, startStore, startLedger>>

----------------------------------------------------------------------------
(* Bounds and inputs *)

MaxCreates == 3

\* --name arguments: "a" and "b"
Labels == { <<97>>, <<98>> }

\* the lines typed into create_migration: one statement that runs, or one
\* the database rejects
GoodLine == "SELECT 1"
BadLine == "SELEC 1"
Bodies == { <<GoodLine>>, <<BadLine>> }

----------------------------------------------------------------------------
(* Strings *)

PadWidth == 3

DotPy == <<46, 112, 121>>

RECURSIVE Digits(_)
Digits(n) == IF n < 10 THEN <<48 + n>> ELSE Digits(n \div 10) \o <<48 + (n % 10)>>

RECURSIVE ZeroPad(_, _)
ZeroPad(s, w) == IF Len(s) >= w THEN s ELSE ZeroPad(<<48>> \o s, w)

\* f"{migration_number:03d}_{name}.py"
FileName(migration_number, name) ==
    ZeroPad(Digits(migration_number), PadWidth) \o <<95>> \o name \o DotPy

EndsWithPy(f) == Len(f) >= 3 /\ SubSeq(f, Len(f) - 2, Len(f)) = DotPy

\* f[:-3]
Strip(f) == SubSeq(f, 1, Len(f) - 3)

\* Python's str comparison: by code point, a proper prefix sorts first
RECURSIVE LexLess(_, _)
LexLess(a, b) ==
    IF a = <<>> THEN b # <<>>
    ELSE IF b = <<>> THEN FALSE
    ELSE IF a[1] = b[1] THEN LexLess(Tail(a), Tail(b))
    ELSE a[1] < b[1]

RECURSIVE Sorted(_)
Sorted(S) ==
    IF S = {} THEN <<>>
    ELSE LET m == CHOOSE x \in S : \A y \in S : x = y \/ LexLess(x, y)
         IN <<m>> \o Sorted(S \ {m})

Range(s) == { s[i] : i \in 1..Len(s) }

----------------------------------------------------------------------------
(* Files *)

InitPy == <<95, 95, 105, 110, 105, 116, 95, 95, 46, 112, 121>>

\* [f for f in os.listdir("pg_migrations") if f.endswith(".py") and f != "__init__.py"]
MigrationFiles(st) == { f \in DOMAIN st : EndsWithPy(f) /\ f # InitPy }

\* [f[:-3] for f in ... ]
StoredNames(st) == { Strip(f) : f \in MigrationFiles(st) }

\* the listing left in an order os.listdir may return: descending
AllMigrationsUnsorted(st) ==
    LET s == Sorted(StoredNames(st)) IN [i \in 1..Len(s) |-> s[Len(s) + 1 - i]]

\* sorted([f[:-3] for f in ... ])
AllMigrations(st) == Sorted(StoredNames(st))

\* f'up_sql = """\n{sql_query}\n"""' with sql_query = "\n".join(lines):
\* the text between the triple quotes
CreateText(lines) == <<"\n">> \o lines \o <<"\n">>

\* f"up_sql = \"\"\"{sql}\"\"\"": the text between the triple quotes
AddText(sql) == sql

\* importlib.import_module(...).up_sql
UpSql(st, migration_file) == st[migration_file \o DotPy]

\* run_pg_query(sql) returns normally
RunsOk(d, sql) == d /\ BadLine \notin Range(sql)

\* the write replaces the directory's content
WriteFileTruncate(st, f, text) == [g \in {f} |-> text]

\* open(path, "w") ... write(text)
WriteFile(st, f, text) == [g \in DOMAIN st \cup {f} |-> IF g = f THEN text ELSE st[g]]

\* the file is left in place
RemoveFileNoop(st, f) == st

\* os.remove(path)
RemoveFile(st, f) == [g \in DOMAIN st \ {f} |-> st[g]]

EmptyStore == [f \in {} |-> <<>>]

----------------------------------------------------------------------------
(* pg_metadata_init: the table exists afterwards unless the queries raise, *)
(* and the exception is swallowed                                          *)

\* the CREATE TABLE is never issued
MetadataInitNoCreate(d, exists) == exists

MetadataInit(d, exists) == exists \/ d

----------------------------------------------------------------------------
Init ==
    /\ dsn = TRUE
    /\ dirExists = FALSE
    /\ store = EmptyStore
    /\ ledgerExists = FALSE
    /\ ledger = <<>>
    /\ pc = "idle"
    /\ all_migrations = <<>>
    /\ applied_migrations = <<>>
    /\ lastOp = "none"
    /\ log = "none"
    /\ report = <<>>
    /\ attempted = <<>>
    /\ failed = {}
    /\ execOk = {}
    /\ startStore = EmptyStore
    /\ startLedger = <<>>
    /\ quiet = FALSE
    /\ lostRecords = <<>>
    /\ nCreates = 0

\* the guard is dropped: the command goes on without the directory
DirMissingNever(exists) == FALSE

\* not os.path.exists("pg_migrations")
DirMissing(exists) == ~exists

\* the test is dropped: init always takes the first branch
NotInitializedAlways(exists) == TRUE

\* "pg_migrations" not in os.listdir()
NotInitialized(exists) == ~exists

\* init
MigrationsInit ==
    /\ pc = "idle"
    /\ lastOp' = "init"
    /\ IF NotInitialized(dirExists)
       THEN /\ dirExists' = TRUE
            /\ IF dsn
               THEN /\ ledgerExists' = TRUE
                    /\ log' = "Initialized migrations table in the database."
               ELSE /\ ledgerExists' = ledgerExists
                    /\ log' = "ValueError"
       ELSE /\ log' = "A pg_migrations process has already been initialized"
            /\ UNCHANGED <<dirExists, ledgerExists>>
    /\ UNCHANGED <<dsn, store, ledger, pc, all_migrations, applied_migrations,
                   report, hist, quiet, lostRecords, nCreates>>

\* create --name name, with the lines typed at the prompt
CreateMigration(name, lines) ==
    /\ pc = "idle"
    /\ nCreates < MaxCreates
    /\ lastOp' = "create"
    /\ IF DirMissing(dirExists)
       THEN /\ log' = "Run migrations init!"
            /\ UNCHANGED <<store, ledgerExists, quiet, nCreates>>
       ELSE LET migration_number == Cardinality(MigrationFiles(store)) + 1
                filename == FileName(migration_number, name)
            IN /\ ledgerExists' = MetadataInit(dsn, ledgerExists)
               /\ store' = WriteFile(store, filename, CreateText(lines))
               /\ log' = "Created new migration file"
               /\ quiet' = FALSE
               /\ nCreates' = nCreates + 1
    /\ UNCHANGED <<dsn, dirExists, ledger, pc, all_migrations, applied_migrations,
                   report, hist, lostRecords>>

\* the status is tested against the wrong list: every line says Applied
StatusLinesAllApplied(all, applied) ==
    [i \in 1..Len(all) |->
        <<all[i], IF all[i] \in Range(all) THEN "Applied" ELSE "Pending">>]

\* the lines list_migrations logs
StatusLines(all, applied) ==
    [i \in 1..Len(all) |->
        <<all[i], IF all[i] \in Range(applied) THEN "Applied" ELSE "Pending">>]

\* list
ListMigrations ==
    /\ pc = "idle"
    /\ lastOp' = "list"
    /\ IF DirMissing(dirExists)
       THEN /\ log' = "Run migrations init!"
            /\ UNCHANGED <<ledgerExists, report>>
       ELSE /\ ledgerExists' = MetadataInit(dsn, ledgerExists)
            /\ IF dsn /\ ledgerExists'
               THEN /\ report' = StatusLines(AllMigrations(store), ledger)
                    /\ log' = "Migrations:"
               ELSE /\ report' = report
                    /\ log' = "Exception"
    /\ UNCHANGED <<dsn, dirExists, store, ledger, pc, all_migrations,
                   applied_migrations, hist, quiet, lostRecords, nCreates>>

\* the pg_migrations table is dropped from outside, between two commands
DropLedger ==
    /\ pc = "idle"
    /\ ledgerExists
    /\ ledgerExists' = FALSE
    /\ ledger' = <<>>
    /\ lostRecords' = ledger
    /\ lastOp' = "drop"
    /\ quiet' = FALSE
    /\ UNCHANGED <<dsn, dirExists, store, pc, all_migrations, applied_migrations,
                   log, report, hist, nCreates>>

\* migrate: apply_pending_migrations up to the loop
ApplyStart ==
    /\ pc = "idle"
    /\ lastOp' = "migrate"
    /\ attempted' = <<>>
    /\ failed' = {}
    /\ execOk' = {}
    /\ startStore' = store
    /\ startLedger' = ledger
    /\ IF DirMissing(dirExists)
       THEN /\ log' = "Run migrations init!"
            /\ quiet' = TRUE
            /\ UNCHANGED <<ledgerExists, pc, all_migrations, applied_migrations>>
       ELSE /\ ledgerExists' = MetadataInit(dsn, ledgerExists)
            /\ IF dsn /\ ledgerExists'
               THEN /\ applied_migrations' = ledger
                    /\ all_migrations' = AllMigrations(store)
                    /\ pc' = "applying"
                    /\ log' = "none"
                    /\ quiet' = quiet
               ELSE /\ log' = "Exception"
                    /\ quiet' = TRUE
                    /\ UNCHANGED <<pc, all_migrations, applied_migrations>>
    /\ UNCHANGED <<dsn, dirExists, store, ledger, report, lostRecords, nCreates>>

\* the file name is recorded instead of the migration name
RecordAppliedWithSuffix(l, filename) == Append(l, filename \o DotPy)

\* the new record replaces the rows of the table
RecordAppliedReplace(l, filename) == <<filename>>

\* INSERT INTO pg_migrations (filename) VALUES ($1)
RecordApplied(l, filename) == Append(l, filename)

\* the INSERT is issued before the script is run
AddMigrationInsertFirst(filename, sql, recOk) ==
    LET written == WriteFile(store, filename \o DotPy, AddText(sql))
        inserted == dsn /\ ledgerExists /\ recOk
        ran == inserted /\ RunsOk(dsn, sql)
    IN /\ execOk' = IF ran THEN execOk \cup {filename} ELSE execOk
       /\ ledger' = IF inserted THEN RecordApplied(ledger, filename) ELSE ledger
       /\ IF ran
          THEN /\ store' = written
               /\ log' = "applied successfully"
               /\ failed' = failed
          ELSE /\ store' = RemoveFile(written, filename \o DotPy)
               /\ log' = "Could not apply migration"
               /\ failed' = failed \cup {filename}

\* add_migration(filename, sql); recOk: the INSERT is not hit by a database error
AddMigration(filename, sql, recOk) ==
    IF DirMissing(dirExists)
    THEN /\ log' = "Run migrations init!"
         /\ UNCHANGED <<store, ledger, failed, execOk>>
    ELSE LET written == WriteFile(store, filename \o DotPy, AddText(sql))
             ran == RunsOk(dsn, sql)
             inserted == ran /\ dsn /\ ledgerExists /\ recOk
         IN /\ execOk' = IF ran THEN execOk \cup {filename} ELSE execOk
            /\ IF inserted
               THEN /\ store' = written
                    /\ ledger' = RecordApplied(ledger, filename)
                    /\ log' = "applied successfully"
                    /\ failed' = failed
               ELSE /\ store' = RemoveFile(written, filename \o DotPy)
                    /\ ledger' = ledger
                    /\ log' = "Could not apply migration"
                    /\ failed' = failed \cup {filename}

\* the membership test is inverted
IsPendingInverted(migration_file, applied) == migration_file \in Range(applied)

\* the membership test is dropped
IsPendingAlways(migration_file, applied) == TRUE

\* migration_file not in applied_migrations
IsPending(migration_file, applied) == migration_file \notin Range(applied)

\* one iteration of the loop of apply_pending_migrations
ApplyStep ==
    /\ pc = "applying"
    /\ all_migrations # <<>>
    /\ LET migration_file == Head(all_migrations)
       IN /\ all_migrations' = Tail(all_migrations)
          /\ IF IsPending(migration_file, applied_migrations)
             THEN /\ attempted' = Append(attempted, migration_file)
                  /\ \E recOk \in BOOLEAN :
                        AddMigration(migration_file, UpSql(store, migration_file), recOk)
             ELSE UNCHANGED <<store, ledger, log, attempted, failed, execOk>>
    /\ UNCHANGED <<dsn, dirExists, ledgerExists, pc, applied_migrations, lastOp,
                   report, startStore, startLedger, quiet, lostRecords, nCreates>>

\* the loop of apply_pending_migrations is exhausted and the command returns
ApplyReturn ==
    /\ pc = "applying"
    /\ all_migrations = <<>>
    /\ pc' = "idle"
    /\ quiet' = TRUE
    /\ UNCHANGED <<dsn, dirExists, store, ledgerExists, ledger, all_migrations,
                   applied_migrations, lastOp, log, report, hist, lostRecords, nCreates>>

\* the name add_migration is called with from outside the loop: "001_a"
AddNames == { Strip(FileName(1, <<97>>)) }

\* add_migration(filename, sql) called on its own
DirectAddMigration(filename, sql) ==
    /\ pc = "idle"
    /\ nCreates < MaxCreates
    /\ lastOp' = "add"
    /\ \E recOk \in BOOLEAN : AddMigration(filename, sql, recOk)
    /\ IF DirMissing(dirExists)
       THEN UNCHANGED <<attempted, quiet, nCreates>>
       ELSE /\ attempted' = Append(attempted, filename)
            /\ quiet' = FALSE
            /\ nCreates' = nCreates + 1
    /\ UNCHANGED <<dsn, dirExists, ledgerExists, pc, all_migrations, applied_migrations,
                   report, startStore, startLedger, lostRecords>>

\* the next command is started with SMOLMIGRATE_DSN set or unset
SetDsn ==
    /\ pc = "idle"
    /\ dsn' = ~dsn
    /\ lastOp' = "env"
    /\ UNCHANGED <<dirExists, store, ledgerExists, ledger, pc, all_migrations,
                   applied_migrations, log, report, hist, quiet, lostRecords, nCreates>>

Next ==
    \/ MigrationsInit
    \/ \E name \in Labels, lines \in Bodies : CreateMigration(name, lines)
    \/ ListMigrations
    \/ DropLedger
    \/ ApplyStart
    \/ ApplyStep
    \/ ApplyReturn

Spec == Init /\ [][Next]_vars

\* the commands, and add_migration called on its own
NextAdd ==
    \/ Next
    \/ \E filename \in AddNames, sql \in Bodies : DirectAddMigration(filename, sql)

SpecAdd == Init /\ [][NextAdd]_vars

\* the commands, each started with or without the connection string
NextEnv ==
    \/ Next
    \/ SetDsn

SpecEnv == Init /\ [][NextEnv]_vars

----------------------------------------------------------------------------
(* Properties *)

\* a migrate command has just returned
RunReturned == pc = "idle" /\ lastOp = "migrate"

\* inside a migrate command, or just after it returned
InOrAfterRun == pc = "applying" \/ RunReturned

\* the records appended to the ledger since the run started
Appended == SubSeq(ledger, Len(startLedger) + 1, Len(ledger))

Ascending(s) == \A i, j \in 1..Len(s) : i < j => LexLess(s[i], s[j])

\* C1: within one migrate run, once add_migration has failed for a name, no
\* later name is attempted or recorded: a failed name can only be the last
\* one attempted.
C1_StopsAtFailure ==
    InOrAfterRun =>
        \A i \in 1..Len(attempted) : attempted[i] \in failed => i = Len(attempted)

\* C2: after a migrate run, every name whose script or ledger insert failed
\* in the run is absent from the ledger and still in the store with the text
\* it had when the run started.
C2_FailedStaysInStore ==
    RunReturned =>
        \A n \in failed :
            /\ n \notin Range(ledger)
            /\ (n \o DotPy) \in DOMAIN store
            /\ store[n \o DotPy] = startStore[n \o DotPy]

\* C3 (as stated): after a migrate run that started with an empty ledger, the
\* names in the ledger are exactly the names stored at the start of the run
\* whose script executed without error.
C3_LedgerIsExecuted ==
    (RunReturned /\ dirExists /\ startLedger = <<>>) =>
        Range(ledger) = { n \in StoredNames(startStore) : n \in execOk }

\* C3 (amended): after a migrate run that started with an empty ledger, the
\* names in the ledger are exactly the names stored at the start of the run
\* whose script executed without error and whose ledger insert succeeded.
C3_LedgerIsExecutedAndRecorded ==
    (RunReturned /\ dirExists /\ startLedger = <<>>) =>
        Range(ledger) = { n \in StoredNames(startStore) : n \in execOk /\ n \notin failed }

\* a run from an empty ledger with one script recorded, one script that ran
\* but was not recorded, and one script that was rejected
C3_Witness ==
    /\ RunReturned /\ dirExists /\ startLedger = <<>>
    /\ ledger # <<>>
    /\ execOk \cap failed # {}
    /\ failed \ execOk # {}

\* C4: no migration name appears more than once in the ledger.
C4_NoDuplicateRecord == Cardinality(Range(ledger)) = Len(ledger)

\* after a drop, a run with a failing script has recorded again names the
\* dropped table held
C4_Witness ==
    /\ pc = "idle"
    /\ Len(ledger) >= 2
    /\ Range(lostRecords) \cap Range(ledger) # {}
    /\ failed # {}

\* C5: the names recorded in the ledger are a subset of the names in the store.
C5_LedgerSubsetOfStore == Range(ledger) \subseteq StoredNames(store)

\* inside a run, after one script was recorded and another was removed from
\* the store because its insert failed
C5_Witness ==
    /\ pc = "applying"
    /\ ledger # <<>>
    /\ \E n \in execOk \cap failed : (n \o DotPy) \notin DOMAIN store

\* C6: a migrate run that starts with no create (and no drop) since the
\* previous migrate returned finds nothing pending, calls add_migration for
\* no name and leaves store and ledger as they were.
C6_SecondRunNoOp ==
    (pc = "applying" /\ quiet) =>
        /\ \A m \in Range(all_migrations) : m \in Range(applied_migrations)
        /\ attempted = <<>>
        /\ store = startStore
        /\ ledger = startLedger

\* the second run has gone through its loop; the store has lost a file to a
\* failure and the ledger holds records
C6_Witness ==
    /\ pc = "applying" /\ quiet
    /\ all_migrations = <<>>
    /\ ledger # <<>>
    /\ Cardinality(DOMAIN store) < nCreates

\* C7: within one migrate run the names are attempted in strictly ascending
\* lexicographic order, and the records the run appends to the ledger are
\* attempted names in that same order.
C7_AscendingOrder ==
    InOrAfterRun =>
        /\ Ascending(attempted)
        /\ Ascending(Appended)
        /\ Range(Appended) \subseteq Range(attempted)

\* a run that attempted three names and recorded at least two of them
C7_Witness ==
    /\ RunReturned
    /\ Len(attempted) >= 3
    /\ Len(Appended) >= 2

\* C8: when the ledger table is missing while the directory exists, the next
\* list or migrate recreates it; list reports every stored name as Pending,
\* migrate takes every stored name as pending and attempts each of them.
C8_SelfHealing ==
    /\ [][(pc = "idle" /\ dirExists /\ ~ledgerExists /\ lastOp' = "list") =>
            /\ ledgerExists'
            /\ report' = [i \in 1..Len(AllMigrations(store)) |->
                            <<AllMigrations(store)[i], "Pending">>]]_vars
    /\ [][(pc = "idle" /\ dirExists /\ ~ledgerExists /\ lastOp' = "migrate") =>
            /\ ledgerExists'
            /\ pc' = "applying"
            /\ applied_migrations' = <<>>
            /\ Range(all_migrations') = StoredNames(store)]_vars
    /\ [](RunReturned /\ dirExists /\ startLedger = <<>> =>
            attempted = AllMigrations(startStore))

\* a run after a drop has recorded again a name the dropped table held
C8_Witness ==
    /\ RunReturned
    /\ startLedger = <<>>
    /\ lostRecords # <<>>
    /\ Range(lostRecords) \cap Range(ledger) # {}

\* C9: init with the directory present changes neither the store, nor the
\* ledger, nor whether the ledger table exists, and logs "already
\* initialized".
C9_InitIdempotent ==
    [][(pc = "idle" /\ dirExists /\ lastOp' = "init") =>
        /\ store' = store
        /\ ledger' = ledger
        /\ ledgerExists' = ledgerExists
        /\ dirExists'
        /\ log' = "A pg_migrations process has already been initialized"]_vars

\* init was repeated on a store with files and a ledger with records
C9_Witness ==
    /\ lastOp = "init"
    /\ log = "A pg_migrations process has already been initialized"
    /\ store # EmptyStore
    /\ ledger # <<>>

C11_BodyNeverChanges ==
    [][\A f \in DOMAIN store \cap DOMAIN store' : store'[f] = store[f]]_vars

\* C12: while the pg_migrations directory does not exist, migrate, create,
\* list and add_migration only log "Run migrations init!": they create no
\* directory and no file, run no script, and leave the ledger table and its
\* records as they were.
C12_NotInitializedNoEffect ==
    [][(~dirExists /\ pc = "idle" /\ lastOp' \in {"migrate", "create", "list", "add"}) =>
        /\ ~dirExists'
        /\ store' = store
        /\ ledgerExists' = ledgerExists
        /\ ledger' = ledger
        /\ pc' = "idle"
        /\ execOk' \subseteq execOk
        /\ log' = "Run migrations init!"]_vars

\* add_migration was called before init
C12_Witness ==
    /\ ~dirExists
    /\ lastOp = "add"
    /\ log = "Run migrations init!"

\* C13: a command started without the connection string leaves the
\* directory, the store, the ledger table and its records as they were.
C13_ConfigMissingNoEffect ==
    [][(~dsn /\ pc = "idle" /\ lastOp' \in {"init", "migrate", "create", "list"}) =>
        /\ dirExists' = dirExists
        /\ store' = store
        /\ ledgerExists' = ledgerExists
        /\ ledger' = ledger]_vars

\* C14: every call of add_migration with the directory present ends in one
\* of two ways: it logs success, the file of that name is in the store and
\* exactly one record of that name was appended to the ledger; or it logs
\* the failure, no file of that name is in the store and the ledger is as it
\* was.  The other files are as they were in both cases.
C14_AddAllOrNothing ==
    [][(Len(attempted') = Len(attempted) + 1) =>
        LET filename == attempted'[Len(attempted')]
            path == filename \o DotPy
        IN /\ \A g \in DOMAIN store \ {path} : g \in DOMAIN store' /\ store'[g] = store[g]
           /\ DOMAIN store' \subseteq DOMAIN store \cup {path}
           /\ \/ /\ log' = "applied successfully"
                 /\ path \in DOMAIN store'
                 /\ ledger' = Append(ledger, filename)
                 /\ filename \in execOk'
              \/ /\ log' = "Could not apply migration"
                 /\ path \notin DOMAIN store'
                 /\ ledger' = ledger]_vars

\* add_migration called on its own has failed for a name that was in the
\* store and in the ledger: the file is gone, the record is still there
C14_Witness ==
    /\ lastOp = "add"
    /\ log = "Could not apply migration"
    /\ \E n \in Range(ledger) : n = attempted[Len(attempted)] /\ (n \o DotPy) \notin DOMAIN store

IsPrefix(s, t) == Len(s) <= Len(t) /\ SubSeq(t, 1, Len(s)) = s

\* C15: across every step of init, create, migrate and list (every step but
\* the drop of the table from outside), the ledger before the step is a
\* prefix of the ledger after it.
C15_LedgerAppendOnly ==
    [][lastOp' # "drop" => IsPrefix(ledger, ledger')]_vars

\* a run that started with records in the ledger has appended a record and
\* has had a script fail
C15_Witness ==
    /\ RunReturned
    /\ startLedger # <<>>
    /\ failed # {}
    /\ Len(ledger) > Len(startLedger)
    /\ IsPrefix(startLedger, ledger)

\* C16: create with the directory present adds exactly one store entry,
\* named zero-pad(n+1, 3) + "_" + label + ".py" with n the number of script
\* files in the store, and leaves every other entry as it was.
C16_CreateAddsOneEntry ==
    [][(pc = "idle" /\ dirExists /\ lastOp' = "create") =>
        \E name \in Labels :
            LET f == FileName(Cardinality(MigrationFiles(store)) + 1, name)
            IN /\ f \notin DOMAIN store
               /\ DOMAIN store' = DOMAIN store \cup {f}
               /\ \A g \in DOMAIN store : store'[g] = store[g]]_vars

\* C17: every name create adds to the store sorts strictly after every name
\* that was in the store when it was created.
C17_NewNameSortsLast ==
    [][(pc = "idle" /\ dirExists /\ lastOp' = "create") =>
        \A f \in DOMAIN store' \ DOMAIN store :
            \A g \in DOMAIN store : LexLess(Strip(g), Strip(f))]_vars

\* C18: after list with the directory present, the report has one line per
\* stored name, in ascending order of the names, saying Applied exactly for
\* the names in the ledger and Pending for the others; the list step leaves
\* the store and the ledger records as they were and does not remove the
\* ledger table.
C18_ListStatus ==
    /\ []((pc = "idle" /\ lastOp = "list" /\ dirExists) =>
            /\ { report[i][1] : i \in 1..Len(report) } = StoredNames(store)
            /\ \A i, j \in 1..Len(report) : i < j => LexLess(report[i][1], report[j][1])
            /\ \A i \in 1..Len(report) :
                    report[i][2] = (IF \E k \in 1..Len(ledger) : ledger[k] = report[i][1]
                                    THEN "Applied" ELSE "Pending"))
    /\ [][(pc = "idle" /\ lastOp' = "list") =>
            /\ store' = store
            /\ ledger' = ledger
            /\ (ledgerExists => ledgerExists')]_vars

\* a report with an Applied line and a Pending line
C18_Witness ==
    /\ pc = "idle" /\ lastOp = "list"
    /\ \E i, j \in 1..Len(report) : report[i][2] = "Applied" /\ report[j][2] = "Pending"

\* C19: when a migrate run that started with the ledger names among the
\* stored names returns, the stored names and the ledger names are the same
\* set: nothing is left pending, whether or not scripts failed.
C19_NothingLeftPending ==
    (RunReturned /\ Range(startLedger) \subseteq StoredNames(startStore)) =>
        StoredNames(store) = Range(ledger)

\* a run with a failed script has returned, with records in the ledger and
\* fewer files than it started with
C19_Witness ==
    /\ RunReturned
    /\ failed # {}
    /\ ledger # <<>>
    /\ StoredNames(store) = Range(ledger)
    /\ Cardinality(DOMAIN store) < Cardinality(DOMAIN startStore)

====
